---- MODULE Spec2Model ----
\* Phase 10 rule engine: deck utilities (src/src/utils/deck.ts), the phase
\* matcher (src/unnamed/part_003, utils/phaseValidation) and the turn / round
\* state machine of the game store (src/src/stores/gameStore.ts).
\*
\* Arrays are sequences; the JavaScript index i is the TLA+ index i+1, so
\* pop() takes the last element and slice(0, n) the first n.
EXTENDS Integers, Sequences, FiniteSets, TLC

\* -------------------------------------------------------------------------
\* Bounds.  The deck of the program has 4 colors x 12 values x 2 copies, 8
\* wilds and 4 skips, and hands of 10; the model plays with a deck of the
\* same construction, scaled down.
NumColors == 2
NumValues == 4
NumCopies == 1
WILD_COUNT == 1
SKIP_COUNT == 1
HandSize == 2
NumSeats == 3
\* Math.random() is one of the fractions 0/RandDen .. (RandDen-1)/RandDen.
RandDen == 3
\* Calls that return true in one run: with every store up to date, and with
\* stores that lag behind the tables.
MaxSteps == 6
MaxStaleSteps == 4
\* Clients whose realtime events may be late (seats 0 .. MaxLagging-1).
MaxLagging == 1
\* Cards passed to validatePhase and isValidGroup, and the requirements' sizes
\* and quantities.
MaxCards == 4
MaxSize == 2
MaxQuantity == 2

AllColors == <<"red", "blue", "green", "yellow">>
COLORS == SubSeq(AllColors, 1, NumColors)
VALUES == [i \in 1..NumValues |-> i]

\* The deck of the program itself, for createDeck and the card points.
DeckCopies == 2
DeckValues == 12
DeckWilds == 8
DeckSkips == 4
\* Cards in an array passed to shuffle or calculateHandScore.
MaxArray == 3
\* startGame refuses fewer players.
MinPlayers == 2
\* Calls that return true in a run that follows the updates one by one.
MaxWriteCalls == 5

\* null / undefined of a string-valued result, and the empty error of the store.
None == "none"
NoError == <<>>

\* -------------------------------------------------------------------------
\* Generic helpers on sequences.
Range(s) == {s[i] : i \in DOMAIN s}

RECURSIVE Flat(_)
\* Array.prototype.flat() on an array of arrays.
Flat(gs) == IF gs = <<>> THEN <<>> ELSE Head(gs) \o Flat(Tail(gs))

RECURSIVE SumSeq(_)
SumSeq(s) == IF s = <<>> THEN 0 ELSE Head(s) + SumSeq(Tail(s))

Filter(s, Test(_)) == SelectSeq(s, Test)

\* -------------------------------------------------------------------------
\* deck.ts

\* generateCardId: the id of the card created at position n of the deck.
generateCardId(n) == n

\* The n-th number card pushed by the loops over copy, color and value.
NumberCardOf(colors, values, n) ==
  LET per == Len(colors) * Len(values)
      m == (n - 1) % per
  IN [id |-> generateCardId(n), color |-> colors[(m \div Len(values)) + 1],
      value |-> values[(m % Len(values)) + 1], isWild |-> FALSE, isSkip |-> FALSE]

\* Every color and value once, whatever the number of copies.
DeckOf_OneCopy(copies, colors, values, wilds, skips) ==
  LET numbers == Len(colors) * Len(values)
  IN [n \in 1..numbers |-> NumberCardOf(colors, values, n)]
     \o [i \in 1..wilds |->
           [id |-> generateCardId(numbers + i), color |-> colors[((i - 1) % Len(colors)) + 1],
            value |-> 0, isWild |-> TRUE, isSkip |-> FALSE]]
     \o [i \in 1..skips |->
           [id |-> generateCardId(numbers + wilds + i), color |-> colors[i],
            value |-> -1, isWild |-> FALSE, isSkip |-> TRUE]]

\* createDeck for a number of copies, colors, values, wilds and skips.
DeckOf(copies, colors, values, wilds, skips) ==
  LET numbers == copies * Len(colors) * Len(values)
  IN [n \in 1..numbers |-> NumberCardOf(colors, values, n)]
     \o [i \in 1..wilds |->
           [id |-> generateCardId(numbers + i), color |-> colors[((i - 1) % Len(colors)) + 1],
            value |-> 0, isWild |-> TRUE, isSkip |-> FALSE]]
     \o [i \in 1..skips |->
           [id |-> generateCardId(numbers + wilds + i), color |-> colors[i],
            value |-> -1, isWild |-> FALSE, isSkip |-> TRUE]]

NumberCard(n) == NumberCardOf(COLORS, VALUES, n)

\* The deck the sessions of the model play with.
createDeck == DeckOf(NumCopies, COLORS, VALUES, WILD_COUNT, SKIP_COUNT)

\* The deck createDeck() returns in the program.
ProgramDeck ==
  DeckOf(DeckCopies, AllColors, [i \in 1..DeckValues |-> i], DeckWilds, DeckSkips)

DeckSize == Len(createDeck)

\* Math.floor(Math.random() * (i + 1)) for the random fraction k / RandDen.
RandomIndex(k, i) == (k * (i + 1)) \div RandDen

\* An exchange that writes one side only.
Swap_Overwrite(s, a, b) == [s EXCEPT ![a] = s[b]]

Swap(s, a, b) == [s EXCEPT ![a] = s[b], ![b] = s[a]]

RECURSIVE shuffleFrom(_, _, _)
\* The loop of shuffle from JavaScript index i down to 1.
shuffleFrom(s, i, k) ==
  IF i <= 0 THEN s
  ELSE shuffleFrom(Swap(s, i + 1, RandomIndex(k, i) + 1), i - 1, k)

\* shuffle(array) when every Math.random() call of the shuffle returns k / RandDen.
shuffle(array, k) == shuffleFrom(array, Len(array) - 1, k)

RECURSIVE shuffleLoop(_, _, _)
\* The loop of shuffle from JavaScript index i down to 1, js[i] being the j
\* computed at index i.
shuffleLoop(s, i, js) ==
  IF i <= 0 THEN s
  ELSE shuffleLoop(Swap(s, i + 1, js[i] + 1), i - 1, js)

\* shuffle(array) for the indices js: the caller's array after the call, and
\* the array returned, which is a copy ([...array]) the loop works on.
shuffleWith(array, js) ==
  [array |-> array, shuffled |-> shuffleLoop(array, Len(array) - 1, js)]

\* Every js the Math.random() calls of shuffle can give for n elements.
ShuffleIndices(n) == {js \in [1..(n - 1) -> 0..(n - 1)] : \A i \in DOMAIN js : js[i] <= i}

Min(a, b) == IF a < b THEN a ELSE b

\* slice(0, count) and slice(count)
dealCards(deck, count) ==
  <<SubSeq(deck, 1, Min(count, Len(deck))), SubSeq(deck, Min(count, Len(deck)) + 1, Len(deck))>>

RECURSIVE dealHands(_, _, _)
\* Returns <<hands, remaining>>.
dealHands(deck, playerCount, cardsPerPlayer) ==
  IF playerCount = 0 THEN <<<<>>, deck>>
  ELSE LET d == dealCards(deck, cardsPerPlayer)
           rest == dealHands(d[2], playerCount - 1, cardsPerPlayer)
       IN <<<<d[1]>> \o rest[1], rest[2]>>

createShuffledDeck(k) == shuffle(createDeck, k)

\* The top card starts the discard pile whatever it is.
flipDiscard_KeepSkip(drawPile) ==
  IF Len(drawPile) = 0 THEN [drawPile |-> drawPile, discardPile |-> <<>>]
  ELSE [drawPile |-> Tail(drawPile), discardPile |-> <<Head(drawPile)>>]

RECURSIVE flipDiscard(_)
\* The while loop of setupGame: skips met on the way go to the end of the pile.
flipDiscard(drawPile) ==
  IF Len(drawPile) = 0 THEN [drawPile |-> drawPile, discardPile |-> <<>>]
  ELSE LET d == dealCards(drawPile, 1)
       IN IF d[1][1].isSkip THEN flipDiscard(d[2] \o <<d[1][1]>>)
          ELSE [drawPile |-> d[2], discardPile |-> d[1]]

\* setupGame after createShuffledDeck() has returned deck.
setupGameFrom(deck, playerCount) ==
  LET dealt == dealHands(deck, playerCount, HandSize)
      piles == flipDiscard(dealt[2])
  IN [hands |-> dealt[1], drawPile |-> piles.drawPile, discardPile |-> piles.discardPile]

setupGame(playerCount, k) == setupGameFrom(createShuffledDeck(k), playerCount)

\* The 10 points start one rank early.
getCardPoints_FromNine(card) ==
  IF card.isWild THEN 25
  ELSE IF card.isSkip THEN 15
  ELSE IF card.value >= 9 THEN 10
  ELSE 5

getCardPoints(card) ==
  IF card.isWild THEN 25
  ELSE IF card.isSkip THEN 15
  ELSE IF card.value >= 10 THEN 10
  ELSE 5

calculateHandScore(hand) == SumSeq([i \in DOMAIN hand |-> getCardPoints(hand[i])])

\* cards.findIndex(card => card.id === cardId), 0 when there is none.
FindIndexById(cards, cardId) ==
  IF \E i \in DOMAIN cards : cards[i].id = cardId
  THEN CHOOSE i \in DOMAIN cards :
         cards[i].id = cardId /\ \A j \in 1..(i - 1) : cards[j].id # cardId
  ELSE 0

\* The cards in front of the removed card go with it.
removeCardById_WithCardsBefore(cards, cardId) ==
  LET index == FindIndexById(cards, cardId)
  IN IF index = 0 THEN [removed |-> <<>>, remaining |-> cards]
     ELSE [removed |-> <<cards[index]>>, remaining |-> SubSeq(cards, index + 1, Len(cards))]

\* Returns [removed, remaining]; removed is <<card>>, or <<>> for undefined.
removeCardById(cards, cardId) ==
  LET index == FindIndexById(cards, cardId)
  IN IF index = 0 THEN [removed |-> <<>>, remaining |-> cards]
     ELSE [removed |-> <<cards[index]>>,
           remaining |-> SubSeq(cards, 1, index - 1) \o SubSeq(cards, index + 1, Len(cards))]

\* -------------------------------------------------------------------------
\* phaseValidation (src/unnamed/part_003)

ValuesOf(cards) == [i \in DOMAIN cards |-> cards[i].value]
SortedValues(cards) == SortSeq(ValuesOf(cards), LAMBDA a, b : a < b)
IsWildCard(c) == c.isWild
NotWildCard(c) == ~c.isWild
NumberedCard(c) == ~c.isWild /\ ~c.isSkip

RECURSIVE getCombinations(_, _)
\* All k-element combinations of array, in the order backtrack() produces them.
getCombinations(array, k) ==
  IF k = 0 THEN <<<<>>>>
  ELSE IF Len(array) < k THEN <<>>
  ELSE LET withHead == getCombinations(Tail(array), k - 1)
       IN [i \in DOMAIN withHead |-> <<Head(array)>> \o withHead[i]]
          \o getCombinations(Tail(array), k)

isValidSet(nonWilds, wildCount) ==
  IF Len(nonWilds) = 0 THEN TRUE
  ELSE Cardinality(Range(ValuesOf(nonWilds))) <= 1

\* A run check without the check for duplicates.
isValidRun_DuplicatesAllowed(nonWilds, wildCount, targetSize) ==
  IF Len(nonWilds) = 0 THEN TRUE
  ELSE LET values == SortedValues(nonWilds)
           span == values[Len(values)] - values[1] + 1
       IN span <= targetSize /\ span - Len(nonWilds) <= wildCount

isValidRun(nonWilds, wildCount, targetSize) ==
  IF Len(nonWilds) = 0 THEN TRUE
  ELSE LET values == SortedValues(nonWilds)
           min == values[1]
           max == values[Len(values)]
           span == max - min + 1
           gaps == span - Len(nonWilds)
           extraNeeded == targetSize - span
       IN IF Cardinality(Range(values)) # Len(values) THEN FALSE
          ELSE IF span > targetSize THEN FALSE
          ELSE gaps <= wildCount /\ extraNeeded >= 0 /\ gaps + extraNeeded <= wildCount

isValidColor(nonWilds, wildCount) ==
  IF Len(nonWilds) = 0 THEN TRUE
  ELSE Cardinality({nonWilds[i].color : i \in DOMAIN nonWilds}) <= 1

isValidGroup(cards, type) ==
  LET wilds == Filter(cards, IsWildCard)
      nonWilds == Filter(cards, NumberedCard)
  IN IF \E i \in DOMAIN cards : cards[i].isSkip THEN FALSE
     ELSE CASE type = "set" -> isValidSet(nonWilds, Len(wilds))
            [] type = "run" -> isValidRun(nonWilds, Len(wilds), Len(cards))
            [] type = "color" -> isValidColor(nonWilds, Len(wilds))
            [] OTHER -> FALSE

\* Only the first valid combination: a search that cannot go back.
findValidGroups_FirstOnly(cards, type, size) ==
  LET combinations == getCombinations(cards, size)
      Valid(combo) == isValidGroup(combo, type)
      found == Filter(combinations, Valid)
  IN IF found = <<>> THEN <<>> ELSE <<found[1]>>

findValidGroups(cards, type, size) ==
  LET combinations == getCombinations(cards, size)
      Valid(combo) == isValidGroup(combo, type)
  IN Filter(combinations, Valid)

\* The cards of a group stay available to the next group.
removeCards_Nothing(cards, toRemove) == cards

removeCards(cards, toRemove) ==
  LET removeIds == {toRemove[i].id : i \in DOMAIN toRemove}
      Keep(c) == c.id \notin removeIds
  IN Filter(cards, Keep)

CannotSatisfy(req) == <<"Cannot satisfy", req.type, req.size>>
NeedExactly(totalNeeded, got) == <<"Need exactly", totalNeeded, got>>

RECURSIVE tryAssignCards(_, _, _)
RECURSIVE tryGroups(_, _, _, _, _)
\* The for loop of tryAssignCards over possibleGroups.
tryGroups(possibleGroups, remainingCards, currentReq, otherReqs, assignedGroups) ==
  IF possibleGroups = <<>>
  THEN [valid |-> FALSE, groups |-> <<>>, error |-> CannotSatisfy(currentReq)]
  ELSE LET group == Head(possibleGroups)
           result == tryAssignCards(removeCards(remainingCards, group), otherReqs,
                                    Append(assignedGroups, group))
       IN IF result.valid THEN result
          ELSE tryGroups(Tail(possibleGroups), remainingCards, currentReq, otherReqs,
                         assignedGroups)

tryAssignCards(remainingCards, remainingRequirements, assignedGroups) ==
  IF Len(remainingRequirements) = 0
  THEN [valid |-> TRUE, groups |-> assignedGroups, error |-> NoError]
  ELSE LET currentReq == Head(remainingRequirements)
           otherReqs == Tail(remainingRequirements)
       IN IF currentReq.quantity > 1
          THEN tryAssignCards(remainingCards,
                 <<[currentReq EXCEPT !.quantity = 1],
                   [currentReq EXCEPT !.quantity = currentReq.quantity - 1]>> \o otherReqs,
                 assignedGroups)
          ELSE tryGroups(findValidGroups(remainingCards, currentReq.type, currentReq.size),
                         remainingCards, currentReq, otherReqs, assignedGroups)

\* validatePhase that stops after counting the cards.
validatePhase_CountOnly(cards, requirements) ==
  LET totalNeeded ==
        SumSeq([i \in DOMAIN requirements |-> requirements[i].size * requirements[i].quantity])
  IN IF Len(cards) # totalNeeded
     THEN [valid |-> FALSE, groups |-> <<>>, error |-> NeedExactly(totalNeeded, Len(cards))]
     ELSE [valid |-> TRUE, groups |-> <<cards>>, error |-> NoError]

validatePhase(cards, requirements) ==
  LET totalNeeded ==
        SumSeq([i \in DOMAIN requirements |-> requirements[i].size * requirements[i].quantity])
  IN IF Len(cards) # totalNeeded
     THEN [valid |-> FALSE, groups |-> <<>>, error |-> NeedExactly(totalNeeded, Len(cards))]
     ELSE tryAssignCards(cards, requirements, <<>>)

\* A run is extended next to its lowest and highest numbered cards, whatever its
\* wild cards stand for.
canHitOnGroup_RunAtExtremes(card, group, type) ==
  IF card.isSkip THEN FALSE
  ELSE IF card.isWild THEN TRUE
  ELSE LET nonWilds == Filter(group, NotWildCard)
       IN CASE type = "set" ->
                 IF Len(nonWilds) = 0 THEN TRUE ELSE card.value = nonWilds[1].value
            [] type = "run" ->
                 LET values == SortedValues(nonWilds)
                 IN IF Len(values) = 0 THEN TRUE
                    ELSE card.value = values[1] - 1 \/ card.value = values[Len(values)] + 1
            [] type = "color" ->
                 IF Len(nonWilds) = 0 THEN TRUE ELSE card.color = nonWilds[1].color
            [] OTHER -> FALSE

canHitOnGroup(card, group, type) ==
  IF card.isSkip THEN FALSE
  ELSE IF card.isWild THEN TRUE
  ELSE LET nonWilds == Filter(group, NotWildCard)
       IN CASE type = "set" ->
                 IF Len(nonWilds) = 0 THEN TRUE ELSE card.value = nonWilds[1].value
            [] type = "run" ->
                 LET values == SortedValues(nonWilds)
                 IN IF Len(values) = 0 THEN TRUE
                    ELSE LET min == values[1]
                             max == values[Len(values)]
                             runLength == Len(group)
                             theoreticalMin == max - runLength + 1
                             theoreticalMax == min + runLength - 1
                         IN card.value = theoreticalMin - 1 \/ card.value = theoreticalMax + 1
            [] type = "color" ->
                 IF Len(nonWilds) = 0 THEN TRUE ELSE card.color = nonWilds[1].color
            [] OTHER -> FALSE

\* sortedValues.every((v, i) => i === 0 || v === sortedValues[i - 1] + 1)
IsSequential(sortedValues) ==
  \A i \in DOMAIN sortedValues : i = 1 \/ sortedValues[i] = sortedValues[i - 1] + 1

\* The color of the group is looked at before its ranks.
determineGroupType_ColorFirst(group) ==
  LET nonWilds == Filter(group, NumberedCard)
      sortedValues == SortedValues(nonWilds)
  IN IF Len(nonWilds) = 0 THEN "set"
     ELSE IF Cardinality({nonWilds[i].color : i \in DOMAIN nonWilds}) = 1
          THEN IF IsSequential(sortedValues) THEN "run" ELSE "color"
     ELSE IF Cardinality(Range(ValuesOf(nonWilds))) = 1 THEN "set"
     ELSE LET minVal == sortedValues[1]
              maxVal == sortedValues[Len(sortedValues)]
              gaps == maxVal - minVal + 1 - Len(nonWilds)
              wildCount == Len(group) - Len(nonWilds)
          IN IF gaps <= wildCount THEN "run" ELSE None

\* None stands for null.
determineGroupType(group) ==
  LET nonWilds == Filter(group, NumberedCard)
      sortedValues == SortedValues(nonWilds)
  IN IF Len(nonWilds) = 0 THEN "set"
     ELSE IF Cardinality(Range(ValuesOf(nonWilds))) = 1 THEN "set"
     ELSE IF Cardinality({nonWilds[i].color : i \in DOMAIN nonWilds}) = 1
          THEN IF IsSequential(sortedValues) THEN "run" ELSE "color"
     ELSE LET minVal == sortedValues[1]
              maxVal == sortedValues[Len(sortedValues)]
              gaps == maxVal - minVal + 1 - Len(nonWilds)
              wildCount == Len(group) - Len(nonWilds)
          IN IF maxVal - minVal + 1 = Len(nonWilds)
                /\ Cardinality(Range(sortedValues)) = Len(nonWilds)
             THEN "run"
             ELSE IF gaps <= wildCount THEN "run"
             ELSE None

\* -------------------------------------------------------------------------
\* gameStore.ts: the rows of the games and game_players tables, each client's
\* store, and the four game actions.

Seats == 0..(NumSeats - 1)

\* phaseSet.phases of the session: a custom phase set of two phases.
phases ==
  <<<<[type |-> "set", size |-> 2, quantity |-> 1]>>,
    <<[type |-> "run", size |-> 2, quantity |-> 1]>>>>

VARIABLES
  game,     \* the games row of the session
  players,  \* the game_players rows, by seat_index (a player's id and user_id are its seat)
  store,    \* store[c]: the game and players held by the store of client c
  last,     \* the last call of a game action and what it returned
  steps     \* number of calls that returned true so far

vars == <<game, players, store, last, steps>>

\* row with the columns of upd overwritten: update(upd).eq('id', ...)
Merge(row, upd) == [f \in DOMAIN row |-> IF f \in DOMAIN upd THEN upd[f] ELSE row[f]]

GameWrite(upd) == [table |-> "games", id |-> 0, set |-> upd]
PlayerWrite(id, upd) == [table |-> "game_players", id |-> id, set |-> upd]

RECURSIVE ApplyWrites(_, _)
\* The rows after the updates of writes, in the order they are awaited.
ApplyWrites(db, writes) ==
  IF writes = <<>> THEN db
  ELSE LET w == Head(writes)
           next == IF w.table = "games"
                   THEN [db EXCEPT !.game = Merge(db.game, w.set)]
                   ELSE IF w.id \in DOMAIN db.players
                        THEN [db EXCEPT !.players[w.id] = Merge(db.players[w.id], w.set)]
                        ELSE db
       IN ApplyWrites(next, Tail(writes))

Failed(msg) == [ok |-> FALSE, error |-> msg, writes |-> <<>>]

\* A catch block that leaves the turn phase of the try block behind.
Caught_TurnPhaseWritten(msg) ==
  [ok |-> FALSE, error |-> msg, writes |-> <<GameWrite([turn_phase |-> "play"])>>]

\* catch (err) { set({ error: (err as Error).message }); return false; }: the
\* throw comes before the first awaited update.
Caught(msg) == Failed(msg)
Done(writes) == [ok |-> TRUE, error |-> NoError, writes |-> writes]

\* The turn check that only looks for a player at current_player_index.
NotMyTurn_AnyPlayer(g, ps, me) == g.current_player_index \notin DOMAIN ps

\* sortedPlayers[game.current_player_index]?.user_id !== currentPlayer.user_id
NotMyTurn(g, ps, me) ==
  ~(g.current_player_index \in DOMAIN ps /\ g.current_player_index = me)

\* A winner check that wants the phase index to pass the last phase.
GameWinner_PastLastPhase(ps) ==
  \E p \in DOMAIN ps : ps[p].has_laid_down /\ ps[p].current_phase_index + 1 > Len(phases)

\* players.find(p => p.has_laid_down && p.current_phase_index + 1 >= maxPhase)
GameWinner(ps) ==
  \E p \in DOMAIN ps : ps[p].has_laid_down /\ ps[p].current_phase_index + 1 >= Len(phases)

\* A new round that leaves the turn phase as the discard found it.
NewRound_TurnPhaseKept(setup) ==
  GameWrite([draw_pile |-> setup.drawPile,
             discard_pile |-> setup.discardPile,
             current_player_index |-> 0])

\* The update of the games row that starts a new round.
NewRound(setup) ==
  GameWrite([draw_pile |-> setup.drawPile,
             discard_pile |-> setup.discardPile,
             current_player_index |-> 0,
             turn_phase |-> "draw"])

\* handleRoundEnd(game, players, winner, phaseSet, finalDiscardPile): the updates
\* it awaits; k is the random fraction of the new round's shuffle.
handleRoundEnd(g, ps, winner, finalDiscardPile, k) ==
  LET score(p) ==
        PlayerWrite(p,
          [score |-> ps[p].score + calculateHandScore(ps[p].hand),
           current_phase_index |->
             IF ps[p].has_laid_down THEN ps[p].current_phase_index + 1
             ELSE ps[p].current_phase_index,
           hand |-> <<>>,
           has_laid_down |-> FALSE,
           laid_down_cards |-> <<>>])
      scoring == [i \in 1..NumSeats |-> score(i - 1)]
      gameWinner == GameWinner(ps)
      setup == setupGame(NumSeats, k)
  IN IF gameWinner
     THEN scoring \o <<GameWrite([status |-> "finished"])>>
     ELSE scoring
          \o [i \in 1..NumSeats |-> PlayerWrite(i - 1, [hand |-> setup.hands[i]])]
          \o <<NewRound(setup)>>

\* A reshuffle that forgets to take the top card off the discard pile first.
ReshuffledPile_WithTop(discard_pile, k) == shuffle(discard_pile, k)

\* newDiscardPile.pop(); newDrawPile = shuffle(newDiscardPile)
ReshuffledPile(discard_pile, k) ==
  shuffle(SubSeq(discard_pile, 1, Len(discard_pile) - 1), k)

\* newDrawPile.pop(): the position of the card a draw from the pile takes.
PopIndex(pile) == Len(pile)

\* drawCard(pile) called on the store of client me holding (g, ps).
drawCard(g, ps, me, pile, k) ==
  IF NotMyTurn(g, ps, me) THEN Failed(<<"Not your turn">>)
  ELSE IF g.turn_phase # "draw" THEN Failed(<<"Already drew this turn">>)
  ELSE IF pile = "draw"
  THEN IF Len(g.draw_pile) = 0 /\ Len(g.discard_pile) <= 1
       THEN Caught(<<"No cards left to draw">>)
       ELSE LET reshuffle == Len(g.draw_pile) = 0
                newDrawPile ==
                  IF reshuffle
                  THEN ReshuffledPile(g.discard_pile, k)
                  ELSE g.draw_pile
                newDiscardPile ==
                  IF reshuffle THEN <<g.discard_pile[Len(g.discard_pile)]>>
                  ELSE g.discard_pile
                card == newDrawPile[PopIndex(newDrawPile)]
            IN Done(<<GameWrite([draw_pile |-> SubSeq(newDrawPile, 1, Len(newDrawPile) - 1),
                                 discard_pile |-> newDiscardPile,
                                 turn_phase |-> "play"]),
                      PlayerWrite(me, [hand |-> Append(ps[me].hand, card)])>>)
  ELSE IF Len(g.discard_pile) = 0 THEN Caught(<<"Discard pile is empty">>)
       ELSE Done(<<GameWrite([draw_pile |-> g.draw_pile,
                              discard_pile |-> SubSeq(g.discard_pile, 1, Len(g.discard_pile) - 1),
                              turn_phase |-> "play"]),
                   PlayerWrite(me, [hand |-> Append(ps[me].hand,
                                                    g.discard_pile[Len(g.discard_pile)])])>>)

\* layDownPhase without its check of has_laid_down.
AlreadyLaidDown_Unchecked(ps, me) == FALSE

\* currentPlayer.has_laid_down, the guard of layDownPhase
AlreadyLaidDown(ps, me) == ps[me].has_laid_down

RECURSIVE RemoveAll(_, _)
\* The loop of layDownPhase that removes allCards from the hand one by one.
RemoveAll(hand, allCards) ==
  IF allCards = <<>> THEN hand
  ELSE RemoveAll(removeCardById(hand, Head(allCards).id).remaining, Tail(allCards))

\* A lay down that writes the groups and leaves has_laid_down as it was.
layDownFor_FlagNotSet(ps, me, cardGroups, requirements) ==
  LET allCards == Flat(cardGroups)
      result == validatePhase(allCards, requirements)
  IN IF ~result.valid THEN Failed(result.error)
     ELSE Done(<<PlayerWrite(me, [hand |-> RemoveAll(ps[me].hand, allCards),
                                 laid_down_cards |-> cardGroups])>>)

\* layDownPhase from the point where it has the requirements of the phase.
layDownFor(ps, me, cardGroups, requirements) ==
  LET allCards == Flat(cardGroups)
      result == validatePhase(allCards, requirements)
  IN IF ~result.valid THEN Failed(result.error)
     ELSE Done(<<PlayerWrite(me, [hand |-> RemoveAll(ps[me].hand, allCards),
                                 has_laid_down |-> TRUE,
                                 laid_down_cards |-> cardGroups])>>)

layDownPhase(g, ps, me, cardGroups) ==
  IF NotMyTurn(g, ps, me) THEN Failed(<<"Not your turn">>)
  ELSE IF g.turn_phase # "play" THEN Failed(<<"Cannot lay down during this phase">>)
  ELSE IF AlreadyLaidDown(ps, me) THEN Failed(<<"Already laid down this round">>)
  ELSE IF ps[me].current_phase_index + 1 \notin DOMAIN phases THEN Failed(<<"Invalid phase">>)
  ELSE layDownFor(ps, me, cardGroups, phases[ps[me].current_phase_index + 1])

\* The card goes to the end of every group of the target.
AddToGroup_EveryGroup(laidDownCards, groupIndex, card) ==
  [i \in DOMAIN laidDownCards |-> Append(laidDownCards[i], card)]

\* The card put in front of the target group.
AddToGroup_InFront(laidDownCards, groupIndex, card) ==
  [laidDownCards EXCEPT ![groupIndex + 1] = <<card>> \o laidDownCards[groupIndex + 1]]

\* newLaidDownCards of hitOnGroup: the card goes to the end of the target group.
AddToGroup(laidDownCards, groupIndex, card) ==
  [laidDownCards EXCEPT ![groupIndex + 1] = Append(laidDownCards[groupIndex + 1], card)]

hitOnGroup(g, ps, me, targetPlayerId, groupIndex, card) ==
  IF NotMyTurn(g, ps, me) THEN Failed(<<"Not your turn">>)
  ELSE IF g.turn_phase # "play" THEN Failed(<<"Cannot hit during this phase">>)
  ELSE IF ~ps[me].has_laid_down THEN Failed(<<"Must lay down phase first">>)
  ELSE IF targetPlayerId \notin DOMAIN ps \/ ~ps[targetPlayerId].has_laid_down
  THEN Failed(<<"Invalid target player">>)
  ELSE IF groupIndex + 1 \notin DOMAIN ps[targetPlayerId].laid_down_cards
  THEN Failed(<<"Invalid group">>)
  ELSE LET targetGroup == ps[targetPlayerId].laid_down_cards[groupIndex + 1]
           groupType == determineGroupType(targetGroup)
       IN IF groupType = None \/ ~canHitOnGroup(card, targetGroup, groupType)
          THEN Failed(<<"Card cannot be added to this group">>)
          ELSE Done(<<PlayerWrite(me, [hand |-> removeCardById(ps[me].hand, card.id).remaining]),
                      PlayerWrite(targetPlayerId,
                        [laid_down_cards |->
                           AddToGroup(ps[targetPlayerId].laid_down_cards, groupIndex, card)])>>)

\* The next index when a skip is not looked at.
ActualNextIndex_NoSkip(g, n, card) == (g.current_player_index + 1) % n

\* actualNextIndex of discardCard among n seats.
ActualNextIndex(g, n, card) ==
  LET nextPlayerIndex == (g.current_player_index + 1) % n
  IN IF card.isSkip THEN (nextPlayerIndex + 1) % n ELSE nextPlayerIndex

discardCard(g, ps, me, card, k) ==
  IF NotMyTurn(g, ps, me) THEN Failed(<<"Not your turn">>)
  ELSE IF g.turn_phase # "play" THEN Failed(<<"Must draw first">>)
  ELSE LET r == removeCardById(ps[me].hand, card.id)
       IN IF r.removed = <<>> THEN Failed(<<"Card not in hand">>)
          ELSE LET newDiscardPile == Append(g.discard_pile, r.removed[1])
                   isRoundOver == Len(r.remaining) = 0
                   actualNextIndex == ActualNextIndex(g, Cardinality(DOMAIN ps), card)
               IN IF isRoundOver THEN Done(handleRoundEnd(g, ps, me, newDiscardPile, k))
                  ELSE Done(<<GameWrite([discard_pile |-> newDiscardPile,
                                         current_player_index |-> actualNextIndex,
                                         turn_phase |-> "draw"]),
                              PlayerWrite(me, [hand |-> r.remaining])>>)

\* -------------------------------------------------------------------------
\* The state machine.

Piles == {"draw", "discard"}
Rand == 0..(RandDen - 1)
\* Ids a caller may name as the target of a hit: the seats and one unknown id.
TargetIds == 0..NumSeats
GroupIndexes == 0..1

\* The cards a caller passes: the cards its store shows in its own hand, and
\* the card on top of the discard pile (a card that is not in its hand).
CallerCards(c) ==
  Range(store[c].players[c].hand)
    \cup (IF Len(store[c].game.discard_pile) > 0
          THEN {store[c].game.discard_pile[Len(store[c].game.discard_pile)]}
          ELSE {})

\* The ways a caller may split the card list cs into cardGroups.
Splits(cs) ==
  {<<cs>>} \cup {<<SubSeq(cs, 1, i), SubSeq(cs, i + 1, Len(cs))>> : i \in 1..(Len(cs) - 1)}

\* cardGroups arguments of layDownPhase: lists of one or two of the caller's cards.
CardGroupArgs(c) ==
  UNION {Splits(cs) : cs \in {<<a>> : a \in CallerCards(c)}
                            \cup {<<a, b>> : a \in CallerCards(c), b \in CallerCards(c)}}

NoCall ==
  [op |-> "start", seat |-> 0, ok |-> TRUE, error |-> NoError, pile |-> None,
   card |-> <<>>, target |-> 0, groupIndex |-> 0, cardGroups |-> <<>>]

\* What last records of a call: its arguments only when it returned true.
Record(op, c, r, args) ==
  IF r.ok THEN [args EXCEPT !.op = op, !.seat = c]
  ELSE [NoCall EXCEPT !.op = op, !.seat = c, !.ok = FALSE, !.error = r.error]

Rows == [game |-> game, players |-> players]
Fresh(db) == [c \in Seats |-> db]

\* A call on the store of client c whose handler returned r: the awaited
\* updates reach the tables.  A rejected call writes nothing, so the calls
\* that may follow it are those that may be made in its place: the model
\* follows only the calls made after a call that returned true.
Commit(op, c, r, args, max) ==
  /\ last.ok
  /\ steps < max
  /\ LET db == ApplyWrites(Rows, r.writes)
     IN /\ game' = db.game
        /\ players' = db.players
  /\ last' = Record(op, c, r, args)
  /\ steps' = IF r.ok THEN steps + 1 ELSE steps

\* Every store has received the realtime events of the call.
Synced == store' = Fresh([game |-> game', players |-> players'])

DrawCall(c, pile, k, max) ==
  Commit("draw", c, drawCard(store[c].game, store[c].players, c, pile, k),
         [NoCall EXCEPT !.pile = pile], max)

LayDownCall(c, cardGroups, max) ==
  Commit("layDown", c, layDownPhase(store[c].game, store[c].players, c, cardGroups),
         [NoCall EXCEPT !.cardGroups = cardGroups], max)

HitCall(c, targetPlayerId, groupIndex, card, max) ==
  Commit("hit", c, hitOnGroup(store[c].game, store[c].players, c, targetPlayerId, groupIndex, card),
         [NoCall EXCEPT !.target = targetPlayerId, !.groupIndex = groupIndex, !.card = <<card>>],
         max)

DiscardCall(c, card, k, max) ==
  Commit("discard", c, discardCard(store[c].game, store[c].players, c, card, k),
         [NoCall EXCEPT !.card = <<card>>], max)

\* The four game actions when every store has received the realtime events of
\* the calls before.
Draw == \E c \in Seats, pile \in Piles, k \in Rand : DrawCall(c, pile, k, MaxSteps) /\ Synced

LayDown ==
  \E c \in Seats : \E cardGroups \in CardGroupArgs(c) :
    LayDownCall(c, cardGroups, MaxSteps) /\ Synced

Hit ==
  \E c \in Seats, t \in TargetIds, gi \in GroupIndexes :
    \E card \in CallerCards(c) : HitCall(c, t, gi, card, MaxSteps) /\ Synced

Discard ==
  \E c \in Seats, k \in Rand :
    \E card \in CallerCards(c) : DiscardCall(c, card, k, MaxSteps) /\ Synced

\* The same calls when realtime events may arrive late: a call leaves the
\* store of a lagging client as it is, until its handlers run.
Lagging == 0..(MaxLagging - 1)

Late ==
  store' = [c \in Seats |->
              IF c \in Lagging THEN store[c] ELSE [game |-> game', players |-> players']]

DrawStale ==
  \E c \in Seats, pile \in Piles, k \in Rand :
    DrawCall(c, pile, k, MaxStaleSteps) /\ Late

LayDownStale ==
  \E c \in Seats : \E cardGroups \in CardGroupArgs(c) :
    LayDownCall(c, cardGroups, MaxStaleSteps) /\ Late

HitStale ==
  \E c \in Seats, t \in TargetIds, gi \in GroupIndexes :
    \E card \in CallerCards(c) : HitCall(c, t, gi, card, MaxStaleSteps) /\ Late

DiscardStale ==
  \E c \in Seats, k \in Rand :
    \E card \in CallerCards(c) : DiscardCall(c, card, k, MaxStaleSteps) /\ Late

\* subscribeToGame, the handler of changes to the games row: set({ game: payload.new }).
GamesChange ==
  \E c \in Lagging :
    /\ last.ok
    /\ store[c].game # game
    /\ store' = [store EXCEPT ![c].game = game]
    /\ UNCHANGED <<game, players, last, steps>>

\* subscribeToGame, the handler of changes to game_players: the rows are loaded again.
PlayersChange ==
  \E c \in Lagging :
    /\ last.ok
    /\ store[c].players # players
    /\ store' = [store EXCEPT ![c].players = players]
    /\ UNCHANGED <<game, players, last, steps>>

\* The session right after start_game: hands and piles of setupGame, seat 0 to draw.
\* The card flipped by setupGame stays on the draw pile.
StartedGame_NothingFlipped(k) ==
  LET setup == setupGame(NumSeats, k)
  IN [game |-> [status |-> "playing", current_player_index |-> 0, turn_phase |-> "draw",
                draw_pile |-> setup.drawPile \o setup.discardPile, discard_pile |-> <<>>],
      players |-> [p \in Seats |->
                     [hand |-> setup.hands[p + 1], current_phase_index |-> 0,
                      has_laid_down |-> FALSE, laid_down_cards |-> <<>>, score |-> 0]]]

StartedGame(k) ==
  LET setup == setupGame(NumSeats, k)
  IN [game |-> [status |-> "playing", current_player_index |-> 0, turn_phase |-> "draw",
                draw_pile |-> setup.drawPile, discard_pile |-> setup.discardPile],
      players |-> [p \in Seats |->
                     [hand |-> setup.hands[p + 1], current_phase_index |-> 0,
                      has_laid_down |-> FALSE, laid_down_cards |-> <<>>, score |-> 0]]]

Init ==
  \E k \in Rand :
    /\ game = StartedGame(k).game
    /\ players = StartedGame(k).players
    /\ store = Fresh(StartedGame(k))
    /\ last = NoCall
    /\ steps = 0

Next == Draw \/ LayDown \/ Hit \/ Discard

Spec == Init /\ [][Next]_vars

\* A round in progress at the start of seat 0's turn, for the claims about the
\* piles: the hands are those dealt, and each card outside the hands is in the
\* draw pile, in the discard pile, or in neither (an update computed from an
\* older snapshot drops the cards played since).
PileStates(k) ==
  LET started == StartedGame(k)
      rest == started.game.draw_pile \o started.game.discard_pile
      cuts == {c \in (0..Len(rest)) \X (0..Len(rest)) : c[1] <= c[2]}
  IN {[started EXCEPT !.game.draw_pile = SubSeq(rest, 1, c[1]),
                      !.game.discard_pile = SubSeq(rest, c[1] + 1, c[2])] : c \in cuts}

InitPiles ==
  \E k \in Rand :
    \E db \in PileStates(k) :
      /\ game = db.game
      /\ players = db.players
      /\ store = Fresh(db)
      /\ last = NoCall
      /\ steps = 0

NextPiles == Draw

SpecPiles == InitPiles /\ [][NextPiles]_vars

NextStale ==
  DrawStale \/ LayDownStale \/ HitStale \/ DiscardStale \/ GamesChange \/ PlayersChange

SpecStale == Init /\ [][NextStale]_vars

\* The rows after each of the calls on db that returns true.
Outcomes(db, calls) ==
  {ApplyWrites(db, r.writes) : r \in {x \in calls : x.ok}}

\* The calls of the active seat with cards of its hand.
DrawCalls(db) ==
  {drawCard(db.game, db.players, db.game.current_player_index, pile, k) :
     pile \in Piles, k \in Rand}

LayDownCalls(db) ==
  LET me == db.game.current_player_index
      hand == db.players[me].hand
  IN {layDownPhase(db.game, db.players, me, <<<<hand[ij[1]], hand[ij[2]]>>>>) :
        ij \in {x \in (DOMAIN hand) \X (DOMAIN hand) : x[1] # x[2]}}

DiscardCalls(db) ==
  LET me == db.game.current_player_index
  IN {discardCard(db.game, db.players, me, card, k) :
        card \in Range(db.players[me].hand), k \in Rand}

\* The sessions at the start of the second round, after a first round in which
\* seat 0 drew, laid down its phase and discarded its last card: seat 0 is on
\* the last phase of the phase set.
LastRoundStates ==
  LET started == {StartedGame(k) : k \in Rand}
      drawn == UNION {Outcomes(db, DrawCalls(db)) : db \in started}
      laid == UNION {Outcomes(db, LayDownCalls(db)) : db \in drawn}
      played == UNION {Outcomes(db, DiscardCalls(db)) : db \in laid}
  IN {db \in played :
        /\ db.game.turn_phase = "draw"
        /\ db.players[0].current_phase_index = Len(phases) - 1}

InitLastRound ==
  \E db \in LastRoundStates :
    /\ game = db.game
    /\ players = db.players
    /\ store = Fresh(db)
    /\ last = NoCall
    /\ steps = 0

SpecLastRound == InitLastRound /\ [][NextStale]_vars

\* The calls with their awaited updates taken one at a time.  last holds the
\* call in progress, the updates it has still to send and the rows it started
\* from; a handler sends its next update when the one before has returned,
\* and any client may load the tables in between.
InProgress(call, pending, before) == [call |-> call, pending |-> pending, before |-> before]

\* The handler of client c has run up to its first update: r is what it
\* computed from the store.
Begin(op, c, r, args) ==
  /\ last.call.ok
  /\ last.pending = <<>>
  /\ steps < MaxWriteCalls
  /\ last' = InProgress(Record(op, c, r, args), r.writes, Rows)
  /\ steps' = IF r.ok THEN steps + 1 ELSE steps
  /\ UNCHANGED <<game, players, store>>

InitWrites ==
  \E k \in Rand :
    /\ game = StartedGame(k).game
    /\ players = StartedGame(k).players
    /\ store = Fresh(StartedGame(k))
    /\ last = InProgress(NoCall, <<>>, StartedGame(k))
    /\ steps = 0

DrawBegins ==
  \E c \in Seats : \E pile \in Piles, k \in Rand :
    Begin("draw", c, drawCard(store[c].game, store[c].players, c, pile, k),
          [NoCall EXCEPT !.pile = pile])

LayDownBegins ==
  \E c \in Seats : \E cardGroups \in CardGroupArgs(c) :
    Begin("layDown", c, layDownPhase(store[c].game, store[c].players, c, cardGroups),
          [NoCall EXCEPT !.cardGroups = cardGroups])

HitBegins ==
  \E c \in Seats, t \in TargetIds, gi \in GroupIndexes :
    \E card \in CallerCards(c) :
      Begin("hit", c, hitOnGroup(store[c].game, store[c].players, c, t, gi, card),
            [NoCall EXCEPT !.target = t, !.groupIndex = gi, !.card = <<card>>])

DiscardBegins ==
  \E c \in Seats, k \in Rand :
    \E card \in CallerCards(c) :
      Begin("discard", c, discardCard(store[c].game, store[c].players, c, card, k),
            [NoCall EXCEPT !.card = <<card>>])

\* The next awaited update reaches its table and the realtime event of the
\* change refreshes every store.
UpdateReturns ==
  /\ last.pending # <<>>
  /\ LET db == ApplyWrites(Rows, <<Head(last.pending)>>)
     IN game' = db.game /\ players' = db.players /\ store' = Fresh(db)
  /\ last' = [last EXCEPT !.pending = Tail(@)]
  /\ UNCHANGED steps

NextWrites == DrawBegins \/ LayDownBegins \/ HitBegins \/ DiscardBegins \/ UpdateReturns

SpecWrites == InitWrites /\ [][NextWrites]_vars

\* validatePhase and isValidGroup as functions of their arguments: the cards are
\* lists of distinct cards of the deck, the requirements lists of one group
\* requirement, or of two requirements of one group of MaxSize cards each.
RequirementTypes == {"set", "run", "color"}
Requirements == [type : RequirementTypes, size : 1..MaxSize, quantity : 1..MaxQuantity]

RequirementLists ==
  {<<>>} \cup {<<r>> : r \in Requirements}
    \cup {<<[type |-> t[1], size |-> MaxSize, quantity |-> 1],
            [type |-> t[2], size |-> MaxSize, quantity |-> 1]>> :
            t \in RequirementTypes \X RequirementTypes}

CardLists ==
  UNION {{cs \in [1..n -> Range(createDeck)] : Cardinality(Range(cs)) = n} : n \in 0..MaxCards}

InitPhase ==
  /\ game = StartedGame(0).game
  /\ players = StartedGame(0).players
  /\ store = Fresh(StartedGame(0))
  /\ steps = 0
  /\ \E cards \in CardLists, requirements \in RequirementLists :
       last = [op |-> "arguments", cards |-> cards, requirements |-> requirements]

ValidatePhaseCall ==
  /\ last.op = "arguments"
  /\ last' = [op |-> "validatePhase", cards |-> last.cards,
              requirements |-> last.requirements,
              result |-> validatePhase(last.cards, last.requirements)]
  /\ UNCHANGED <<game, players, store, steps>>

IsValidGroupCall ==
  /\ last.op = "arguments"
  /\ \E type \in RequirementTypes :
       last' = [op |-> "isValidGroup", cards |-> last.cards, type |-> type,
                result |-> isValidGroup(last.cards, type)]
  /\ UNCHANGED <<game, players, store, steps>>

DetermineGroupTypeCall ==
  /\ last.op = "arguments"
  /\ last' = [op |-> "determineGroupType", group |-> last.cards,
              result |-> determineGroupType(last.cards)]
  /\ UNCHANGED <<game, players, store, steps>>

\* The first of the cards is the card to hit with, the others are the group.
CanHitOnGroupCall ==
  /\ last.op = "arguments"
  /\ last.cards # <<>>
  /\ \E type \in RequirementTypes :
       last' = [op |-> "canHitOnGroup", card |-> Head(last.cards),
                group |-> Tail(last.cards), type |-> type,
                result |-> canHitOnGroup(Head(last.cards), Tail(last.cards), type)]
  /\ UNCHANGED <<game, players, store, steps>>

\* layDownPhase by seat 0 when its hand is the cards, the requirements are
\* those of its phase, and cardGroups is the cards cut into one or two groups.
LayDownForCall ==
  /\ last.op = "arguments"
  /\ last.cards # <<>>
  /\ \E cardGroups \in Splits(last.cards) :
       LET ps == [players EXCEPT ![0].hand = last.cards]
           r == layDownFor(ps, 0, cardGroups, last.requirements)
       IN /\ players' = IF r.ok THEN ApplyWrites([game |-> game, players |-> ps], r.writes).players
                        ELSE players
          /\ last' = IF r.ok
                     THEN [op |-> "layDown", ok |-> TRUE, cardGroups |-> cardGroups,
                           requirements |-> last.requirements]
                     ELSE [op |-> "layDown", ok |-> FALSE, error |-> r.error]
  /\ UNCHANGED <<game, store, steps>>

NextPhase ==
  \/ ValidatePhaseCall
  \/ IsValidGroupCall
  \/ DetermineGroupTypeCall
  \/ CanHitOnGroupCall
  \/ LayDownForCall

SpecPhase == InitPhase /\ [][NextPhase]_vars

\* The functions of deck.ts as functions of their arguments.  The arrays are
\* lists of distinct cards of the program's deck: the first card of each rank,
\* the first wild and the first skip.
SampleCards ==
  {ProgramDeck[n] : n \in {m \in DOMAIN ProgramDeck :
                             \A l \in 1..(m - 1) : ProgramDeck[l].value # ProgramDeck[m].value}}

Arrays ==
  UNION {{cs \in [1..n -> SampleCards] : Cardinality(Range(cs)) = n} : n \in 0..MaxArray}

InitDeck ==
  /\ game = StartedGame(0).game
  /\ players = StartedGame(0).players
  /\ store = Fresh(StartedGame(0))
  /\ steps = 0
  /\ \E cards \in Arrays : last = [op |-> "arguments", cards |-> cards]

\* createDeck(), which takes no argument.  generateCardId() cuts seven base-36
\* digits out of Math.random(): the ids are pairwise different (a = b), or the
\* b-th call returns what the a-th returned.
CreateDeckCall ==
  /\ last.op = "arguments" /\ last.cards = <<>>
  /\ \E a, b \in DOMAIN ProgramDeck :
       /\ a <= b
       /\ last' = [op |-> "createDeck",
                   result |-> [ProgramDeck EXCEPT ![b].id = ProgramDeck[a].id]]
  /\ UNCHANGED <<game, players, store, steps>>

\* setupGame(playerCount) for the deck of the model, each Math.random() call of
\* the shuffle returning one of the fractions ks[i] / RandDen.
SetupGameCall ==
  /\ last.op = "arguments" /\ last.cards = <<>>
  /\ \E playerCount \in MinPlayers..NumSeats, ks \in [1..(DeckSize - 1) -> Rand] :
       LET js == [i \in DOMAIN ks |-> RandomIndex(ks[i], i)]
           deck == shuffleWith(createDeck, js).shuffled
       IN last' = [op |-> "setupGame", playerCount |-> playerCount, deck |-> deck,
                   result |-> setupGameFrom(deck, playerCount)]
  /\ UNCHANGED <<game, players, store, steps>>

ShuffleCall ==
  /\ last.op = "arguments"
  /\ \E js \in ShuffleIndices(Len(last.cards)) :
       LET r == shuffleWith(last.cards, js)
       IN last' = [op |-> "shuffle", input |-> last.cards, array |-> r.array,
                   result |-> r.shuffled]
  /\ UNCHANGED <<game, players, store, steps>>

GetCardPointsCall ==
  /\ last.op = "arguments" /\ Len(last.cards) = 1
  /\ last' = [op |-> "getCardPoints", card |-> last.cards[1],
              result |-> getCardPoints(last.cards[1])]
  /\ UNCHANGED <<game, players, store, steps>>

CalculateHandScoreCall ==
  /\ last.op = "arguments"
  /\ last' = [op |-> "calculateHandScore", hand |-> last.cards,
              result |-> calculateHandScore(last.cards)]
  /\ UNCHANGED <<game, players, store, steps>>

NextDeck ==
  CreateDeckCall \/ SetupGameCall \/ ShuffleCall \/ GetCardPointsCall \/ CalculateHandScoreCall

SpecDeck == InitDeck /\ [][NextDeck]_vars

\* -------------------------------------------------------------------------
\* Properties.

IdsOf(cards) == {cards[i].id : i \in DOMAIN cards}
InHand(card, hand) == card.id \in IdsOf(hand)
Count(cards, id) == Cardinality({i \in DOMAIN cards : cards[i].id = id})
Distinct(cards) == Cardinality(IdsOf(cards)) = Len(cards)

\* Every card of the session: the piles, then each seat's hand and groups.
Everywhere ==
  game.draw_pile \o game.discard_pile
    \o Flat([i \in 1..NumSeats |->
               players[i - 1].hand \o Flat(players[i - 1].laid_down_cards)])

\* after is before without the cards of removed, each taken out once.
RemovedExactly(before, after, removed) ==
  \A id \in IdsOf(before) \cup IdsOf(after) \cup IdsOf(removed) :
    Count(before, id) = Count(after, id) + Count(removed, id)

RECURSIVE ExpandReqs(_)
\* One entry per required group: a requirement of quantity q counts q times.
ExpandReqs(reqs) ==
  IF reqs = <<>> THEN <<>>
  ELSE [i \in 1..Head(reqs).quantity |-> [type |-> Head(reqs).type, size |-> Head(reqs).size]]
       \o ExpandReqs(Tail(reqs))

\* The cards assigned to group n by the assignment f, in their order in cards.
Assigned(cards, f, n) ==
  LET Pick(i) == f[i] = n
      idx == SelectSeq([i \in DOMAIN cards |-> i], Pick)
  IN [j \in DOMAIN idx |-> cards[idx[j]]]

\* Some way of dealing all the cards into the required groups makes every
\* group of its required size and valid for its type.
SatisfiesPhase(cards, reqs) ==
  LET want == ExpandReqs(reqs)
  IN \E f \in [DOMAIN cards -> DOMAIN want] :
       \A n \in DOMAIN want :
         /\ Len(Assigned(cards, f, n)) = want[n].size
         /\ isValidGroup(Assigned(cards, f, n), want[n].type)

Unchanged == game' = game /\ players' = players
Called(op) == last'.op = op /\ steps' = steps + 1
Rejected(op) == last'.op = op /\ ~last'.ok

\* C1: while the session is playing, the draw pile, the discard pile, the
\* hands and the laid-down groups hold exactly the cards of the deck, each
\* card id in one place only.
C1_CardConservation ==
  game.status = "playing" => Len(Everywhere) = DeckSize /\ Distinct(Everywhere)

C3_CallsUseLatestState ==
  [][steps' # steps
     => store[last'.seat].game = game /\ store[last'.seat].players = players]_vars

\* C4: a layDown of the active seat in play that returns true, with distinct
\* cards of the seat's hand, takes exactly the submitted cards out of the hand,
\* sets has_laid_down, and records the groups of the matcher: one group per
\* required group, of the required size and valid for its type, however the
\* caller split the cards.
C4_LayDownRecordsMatcherGroups ==
  [][(/\ Called("layDown")
      /\ last'.seat = game.current_player_index /\ game.turn_phase = "play"
      /\ Distinct(Flat(last'.cardGroups))
      /\ IdsOf(Flat(last'.cardGroups)) \subseteq IdsOf(players[last'.seat].hand))
     => LET s == last'.seat
            cards == Flat(last'.cardGroups)
            reqs == phases[players[s].current_phase_index + 1]
            want == ExpandReqs(reqs)
            laid == players'[s].laid_down_cards
        IN /\ RemovedExactly(players[s].hand, players'[s].hand, cards)
           /\ players'[s].has_laid_down
           /\ laid = validatePhase(cards, reqs).groups
           /\ Len(laid) = Len(want)
           /\ \A i \in DOMAIN laid :
                i \in DOMAIN want
                  => Len(laid[i]) = want[i].size /\ isValidGroup(laid[i], want[i].type)]_vars

\* C5: a layDown returns true only if every submitted card is in the seat's
\* hand and no card is submitted twice.
C5_LayDownOnlyFromHand ==
  [][Called("layDown")
     => LET cards == Flat(last'.cardGroups)
        IN /\ \A i \in DOMAIN cards : InHand(cards[i], players[last'.seat].hand)
           /\ Distinct(cards)]_vars

C8_HitMovesCardFromHand ==
  [][Called("hit")
     => /\ InHand(last'.card[1], players[last'.seat].hand)
        /\ Len(players'[last'.seat].hand) = Len(players[last'.seat].hand) - 1]_vars

C10_DiscardPassesTurn ==
  [][(Called("discard") /\ Len(players[last'.seat].hand) > 1)
     => LET s == last'.seat
            card == last'.card[1]
        IN /\ s = game.current_player_index
           /\ game'.discard_pile = Append(game.discard_pile, card)
           /\ game'.turn_phase = "draw"
           /\ game'.current_player_index =
                IF card.isSkip THEN (s + 2) % NumSeats ELSE (s + 1) % NumSeats]_vars

C10_Witness ==
  /\ last.op = "discard" /\ last.ok /\ last.card[1].isSkip
  /\ last.seat = 0
  /\ game.current_player_index = 2 % NumSeats
  /\ game.turn_phase = "draw"
  /\ Len(players[0].hand) > 0

\* The cards of a, as a bag of ids.
SameCards(a, b) == \A id \in IdsOf(a) \cup IdsOf(b) : Count(a, id) = Count(b, id)

\* A draw from the draw pile by the active seat, made when the draw pile is
\* empty and the discard pile holds two cards or more, returned true.
ReshuffleDraw ==
  /\ Called("draw") /\ last'.pile = "draw"
  /\ Len(game.draw_pile) = 0 /\ Len(game.discard_pile) >= 2

\* C11, as stated: after such a draw the discard pile holds only its former
\* top, the draw pile holds the other k-1 cards of the former discard pile in
\* some order, and the drawer's hand has one card more.
C11_ReshuffleLeavesAllButTop ==
  [][ReshuffleDraw
     => LET s == last'.seat
            k == Len(game.discard_pile)
        IN /\ game'.discard_pile = <<game.discard_pile[k]>>
           /\ Len(game'.draw_pile) = k - 1
           /\ SameCards(game'.draw_pile, SubSeq(game.discard_pile, 1, k - 1))
           /\ Len(players'[s].hand) = Len(players[s].hand) + 1]_vars

\* C11, amended: after such a draw the discard pile holds only its former
\* top; the drawn card is added at the end of the drawer's hand; and the draw
\* pile holds k-2 cards, which together with the drawn card are the former
\* discard pile without its top.
C11_ReshuffleThenDraw ==
  [][ReshuffleDraw
     => LET s == last'.seat
            k == Len(game.discard_pile)
            hand == players'[s].hand
        IN /\ game'.discard_pile = <<game.discard_pile[k]>>
           /\ Len(hand) = Len(players[s].hand) + 1
           /\ SubSeq(hand, 1, Len(hand) - 1) = players[s].hand
           /\ Len(game'.draw_pile) = k - 2
           /\ SameCards(Append(game'.draw_pile, hand[Len(hand)]),
                        SubSeq(game.discard_pile, 1, k - 1))]_vars

\* A draw that reshuffled a discard pile of four cards into another order: the
\* draw pile does not start with the first card left by the deal.
C11_Witness ==
  /\ last.op = "draw" /\ last.ok /\ last.pile = "draw"
  /\ Len(game.draw_pile) = 2 /\ Len(game.discard_pile) = 1
  /\ \E k \in Rand :
       LET started == StartedGame(k)
           rest == started.game.draw_pile \o started.game.discard_pile
       IN /\ Len(rest) = 4
          /\ players[0].hand = Append(started.players[0].hand, rest[1])
          /\ game.draw_pile = <<rest[2], rest[3]>>
          /\ game.discard_pile = <<rest[4]>>

\* C12: a draw from the draw pile by the active seat in draw, made when the
\* draw pile is empty and the discard pile holds at most one card, does not
\* return true, and the call that fails there reports an error and changes no
\* row: piles, hands, active seat and turn phase are as before.
C12_NoCardsLeftRejected ==
  [][(/\ last'.op = "draw"
      /\ last'.seat = game.current_player_index /\ game.turn_phase = "draw"
      /\ Len(game.draw_pile) = 0 /\ Len(game.discard_pile) <= 1)
     => /\ last'.ok => last'.pile = "discard"
        /\ ~last'.ok
             => /\ last'.error \in {<<"No cards left to draw">>, <<"Discard pile is empty">>}
                /\ Unchanged /\ game'.turn_phase = "draw"]_vars

C12_Witness ==
  /\ last.op = "draw" /\ ~last.ok /\ last.error = <<"No cards left to draw">>
  /\ last.seat = game.current_player_index /\ game.turn_phase = "draw"
  /\ Len(game.draw_pile) = 0 /\ Len(game.discard_pile) = 1

\* A discard of the last card of a hand returned true: the round ends.
RoundEnds == Called("discard") /\ Len(players[last'.seat].hand) = 1

\* The seat's hand at the moment the round ends: the discarded card has left it.
HandAtRoundEnd(p) == IF p = last'.seat THEN <<>> ELSE players[p].hand

\* C13: when a round ends, each seat's score grows by the points of the cards
\* in its hand at that moment, 0 for the seat that emptied its hand, and its
\* phase index grows by 1 if it laid down this round and stays otherwise.
C13_RoundEndScores ==
  [][RoundEnds
     => \A p \in Seats :
          /\ players'[p].score = players[p].score + calculateHandScore(HandAtRoundEnd(p))
          /\ players'[p].current_phase_index =
               IF players[p].has_laid_down THEN players[p].current_phase_index + 1
               ELSE players[p].current_phase_index]_vars

\* C14: at a round end the status becomes finished exactly when a seat that
\* laid down this round reaches the number of phases with its advanced phase
\* index; then no hand is dealt and the draw pile is not reseeded; otherwise
\* the status stays playing.
C14_FinishedIffLastPhaseDone ==
  [][RoundEnds
     => LET won == \E p \in Seats :
                     /\ players[p].has_laid_down
                     /\ players[p].current_phase_index + 1 >= Len(phases)
        IN /\ game'.status = "finished" <=> won
           /\ won => /\ \A p \in Seats : players'[p].hand = <<>>
                      /\ game'.draw_pile = game.draw_pile
                      /\ game'.current_player_index = game.current_player_index
           /\ ~won => game'.status = game.status /\ game.status = "playing"]_vars

C14_Witness ==
  /\ game.status = "finished"
  /\ last.op = "discard" /\ last.ok
  /\ \E p \in Seats : players[p].current_phase_index = Len(phases)
  /\ \A p \in Seats : players[p].hand = <<>>

\* C15: at a round end with no match winner every seat holds a new hand of
\* HandSize cards, the hands and the piles together are one whole deck, every
\* has_laid_down is false and every laid_down_cards is empty, the scores are
\* not reset and the phase indices are the advanced ones, and seat 0 is active
\* in draw, also after a skip.
C15_NewRoundDealt ==
  [][(RoundEnds /\ game'.status # "finished")
     => /\ \A p \in Seats :
             /\ Len(players'[p].hand) = HandSize
             /\ ~players'[p].has_laid_down
             /\ players'[p].laid_down_cards = <<>>
             /\ players'[p].score >= players[p].score
             /\ players'[p].current_phase_index =
                  IF players[p].has_laid_down THEN players[p].current_phase_index + 1
                  ELSE players[p].current_phase_index
        /\ SameCards(Flat([i \in 1..NumSeats |-> players'[i - 1].hand])
                       \o game'.draw_pile \o game'.discard_pile,
                     createDeck)
        /\ Len(game'.discard_pile) = 1
        /\ game'.current_player_index = 0
        /\ game'.turn_phase = "draw"]_vars

\* A round that the discard of a skip ended, by a seat other than the last:
\* seat 0 is active, not the seat after the discarding one.
C15_Witness ==
  /\ last.op = "discard" /\ last.ok /\ last.card[1].isSkip
  /\ (last.seat + 1) % NumSeats # 0
  /\ game.status = "playing"
  /\ game.current_player_index = 0 /\ game.turn_phase = "draw"
  /\ \A p \in Seats : Len(players[p].hand) = HandSize /\ ~players[p].has_laid_down
  /\ \E p \in Seats : players[p].current_phase_index = 1

\* C16: once the status is finished no call changes the games row or a
\* game_players row, and the status stays finished.
C16_FinishedIsTerminal ==
  [][game.status = "finished" => game' = game /\ players' = players]_vars

\* C17: while the status is playing no seat holds an empty hand: the call that
\* empties a hand, a discard, a hit or a layDown, ends the round.
C17_NoEmptyHandWhilePlaying ==
  game.status = "playing" => \A p \in Seats : Len(players[p].hand) > 0

TotalNeeded(reqs) == SumSeq([i \in DOMAIN reqs |-> reqs[i].size * reqs[i].quantity])

\* C18: validatePhase returns valid exactly when the number of cards is the
\* sum of size x quantity over the requirements and some way of dealing the
\* cards into the required groups gives each group its size and a valid
\* content for its type, as found by trying every assignment.
C18_ValidateMatchesExhaustiveSearch ==
  last.op = "validatePhase"
    => (last.result.valid
          <=> /\ Len(last.cards) = TotalNeeded(last.requirements)
              /\ SatisfiesPhase(last.cards, last.requirements))

\* A set and a run found only by going back on the first set tried.
C18_Witness ==
  /\ last.op = "validatePhase" /\ last.result.valid
  /\ Len(last.requirements) = 2
  /\ last.requirements[1].type = "set" /\ last.requirements[2].type = "run"
  /\ last.cards[1].isWild
  /\ last.result.groups[1] # SubSeq(last.cards, 1, 2)
  /\ \A i \in DOMAIN last.result.groups[1] : ~last.result.groups[1][i].isWild

\* C19: when validatePhase returns valid its groups hold every submitted card
\* once, one group per required group in the order of the requirements with
\* each quantity expanded, the i-th of the i-th required size and valid for
\* the i-th type; for two sets of MaxSize and cards that are two ranks, the
\* groups are the cards of each rank.
C19_GroupsInRequirementOrder ==
  (last.op = "validatePhase" /\ last.result.valid)
    => LET groups == last.result.groups
           want == ExpandReqs(last.requirements)
       IN /\ Len(groups) = Len(want)
          /\ \A i \in DOMAIN groups :
               i \in DOMAIN want
                 => /\ Len(groups[i]) = want[i].size
                    /\ isValidGroup(groups[i], want[i].type)
          /\ SameCards(Flat(groups), last.cards)
          /\ Distinct(Flat(groups))
          /\ (/\ last.requirements = <<[type |-> "set", size |-> MaxSize, quantity |-> 2]>>
              /\ \A i \in DOMAIN last.cards : ~last.cards[i].isWild)
               => \A i \in DOMAIN groups :
                    \A a, b \in DOMAIN groups[i] : groups[i][a].value = groups[i][b].value

C19_Witness ==
  /\ last.op = "validatePhase" /\ last.result.valid
  /\ last.requirements = <<[type |-> "set", size |-> MaxSize, quantity |-> 2]>>
  /\ \A i \in DOMAIN last.cards : ~last.cards[i].isWild
  /\ last.cards[1].value # last.cards[2].value
  /\ Len(last.result.groups) = 2

\* What C20 says of a group: no skip, and among the cards that are not wild,
\* for a run ranks that differ pairwise and span at most the group size with
\* wilds for the gaps, for a set one rank, for a color one color.
GroupRule(cards, type) ==
  LET nonWild == {i \in DOMAIN cards : ~cards[i].isWild}
      wildCount == Len(cards) - Cardinality(nonWild)
      ranks == {cards[i].value : i \in nonWild}
      max == CHOOSE v \in ranks : \A w \in ranks : w <= v
      min == CHOOSE v \in ranks : \A w \in ranks : v <= w
  IN /\ \A i \in DOMAIN cards : ~cards[i].isSkip
     /\ \/ nonWild = {}
        \/ /\ type = "run"
           /\ Cardinality(ranks) = Cardinality(nonWild)
           /\ max - min + 1 <= Len(cards)
           /\ wildCount >= (max - min + 1) - Cardinality(nonWild)
        \/ type = "set" /\ Cardinality(ranks) = 1
        \/ type = "color" /\ Cardinality({cards[i].color : i \in nonWild}) = 1

\* C20: isValidGroup is false for cards with a skip, and otherwise true
\* exactly for the groups its type allows; a group of wilds only is valid for
\* every type.
C20_IsValidGroupRule ==
  last.op = "isValidGroup" => (last.result <=> GroupRule(last.cards, last.type))

\* A run of three ranks of which a wild stands for the middle one.
C20_Witness ==
  /\ last.op = "isValidGroup" /\ last.type = "run" /\ last.result
  /\ Len(last.cards) = 3
  /\ \E i \in DOMAIN last.cards : last.cards[i].isWild
  /\ \E i, j \in DOMAIN last.cards : last.cards[i].value = last.cards[j].value + 2

NoSkip(cards) == \A i \in DOMAIN cards : ~cards[i].isSkip

\* The group type C21 gives a group without skips, by the ranks and colors of
\* its cards that are not wild.
GroupTypeRule(group) ==
  LET nonWild == {i \in DOMAIN group : ~group[i].isWild}
      wildCount == Len(group) - Cardinality(nonWild)
      ranks == {group[i].value : i \in nonWild}
      colors == {group[i].color : i \in nonWild}
      max == CHOOSE v \in ranks : \A w \in ranks : w <= v
      min == CHOOSE v \in ranks : \A w \in ranks : v <= w
      distinct == Cardinality(ranks) = Cardinality(nonWild)
  IN IF nonWild = {} \/ Cardinality(ranks) = 1 THEN "set"
     ELSE IF Cardinality(colors) = 1
          THEN IF distinct /\ max - min + 1 = Cardinality(nonWild) THEN "run" ELSE "color"
     ELSE IF (max - min + 1) - Cardinality(ranks) <= wildCount THEN "run"
     ELSE None

\* C21: determineGroupType returns set for an all-wild group or one rank,
\* otherwise for one color run when the ranks are contiguous and color when
\* they are not, otherwise run when the ranks form a sequence that is
\* contiguous or has gaps the wilds can fill, and null in every other case.
C21_GroupTypeHeuristic ==
  (last.op = "determineGroupType" /\ NoSkip(last.group))
    => last.result = GroupTypeRule(last.group)

\* The group's rank or color for a hit: that of its cards that are not wild.
HitRule(card, group, type) ==
  LET nonWild == {i \in DOMAIN group : ~group[i].isWild}
      ranks == {group[i].value : i \in nonWild}
      max == CHOOSE v \in ranks : \A w \in ranks : w <= v
      min == CHOOSE v \in ranks : \A w \in ranks : v <= w
      L == Len(group)
  IN CASE type = "set" -> nonWild = {} \/ ranks = {card.value}
       [] type = "color" -> nonWild = {} \/ {group[i].color : i \in nonWild} = {card.color}
       [] type = "run" -> card.value = (max - L + 1) - 1 \/ card.value = (min + L - 1) + 1

\* C22: canHitOnGroup never accepts a skip and always accepts a wild; on a
\* group valid for its type it accepts a numbered card on a set exactly when
\* the rank is the group's, on a color group exactly when the color is the
\* group's (any when the group is all wild), and on a run of L cards with
\* numbered extremes min and max exactly for the ranks max - L and min + L.
C22_HitRule ==
  last.op = "canHitOnGroup"
    => /\ last.card.isSkip => ~last.result
       /\ last.card.isWild => last.result
       /\ (/\ ~last.card.isSkip /\ ~last.card.isWild
           /\ isValidGroup(last.group, last.type)
           /\ last.type = "run" => \E i \in DOMAIN last.group : ~last.group[i].isWild)
            => (last.result <=> HitRule(last.card, last.group, last.type))

\* A card accepted below a run whose wild stands for the lower end.
C22_Witness ==
  /\ last.op = "canHitOnGroup" /\ last.type = "run" /\ last.result
  /\ ~last.card.isWild
  /\ Len(last.group) = 2 /\ isValidGroup(last.group, "run")
  /\ \E i \in DOMAIN last.group : last.group[i].isWild
  /\ \E i \in DOMAIN last.group : last.group[i].value = last.card.value + 2

\* C23: for 2 to NumSeats players setupGame returns one hand of HandSize cards
\* per player, a discard pile of one card that is not a skip and a draw pile
\* of the other DeckSize - HandSize x n - 1 cards, every card of the deck being
\* in exactly one of these places.
C23_SetupGameDealsWholeDeck ==
  last.op = "setupGame"
    => LET r == last.result
           n == last.playerCount
           all == Flat(r.hands) \o r.drawPile \o r.discardPile
       IN /\ Len(r.hands) = n
          /\ \A i \in DOMAIN r.hands : Len(r.hands[i]) = HandSize
          /\ Len(r.discardPile) = 1 /\ ~r.discardPile[1].isSkip
          /\ Len(r.drawPile) = DeckSize - HandSize * n - 1
          /\ Len(all) = DeckSize
          /\ Range(all) = Range(createDeck)

\* The card on top after the deal is a skip, which goes under the draw pile.
C23_Witness ==
  /\ last.op = "setupGame" /\ last.playerCount = NumSeats
  /\ last.deck[HandSize * NumSeats + 1].isSkip
  /\ last.result.drawPile[Len(last.result.drawPile)].isSkip

\* C24: createDeck returns 108 cards: two numbered cards for each of the 4
\* colors and each rank 1 to 12 (96), 8 wilds and 4 skips; no card is both
\* wild and skip, and the numbered cards are neither.
C24_DeckComposition ==
  last.op = "createDeck"
    => LET deck == last.result
           Numbered(c, v) ==
             {n \in DOMAIN deck :
                deck[n].color = c /\ deck[n].value = v /\ ~deck[n].isWild /\ ~deck[n].isSkip}
           OfRank(c, v) == {n \in DOMAIN deck : deck[n].color = c /\ deck[n].value = v}
           wilds == {n \in DOMAIN deck : deck[n].isWild}
           skips == {n \in DOMAIN deck : deck[n].isSkip}
       IN /\ Len(deck) = 108
          /\ \A c \in {"red", "blue", "green", "yellow"}, v \in 1..12 :
               Cardinality(Numbered(c, v)) = 2 /\ OfRank(c, v) = Numbered(c, v)
          /\ Cardinality(wilds) = 8
          /\ Cardinality(skips) = 4
          /\ wilds \cap skips = {}
          /\ Cardinality(DOMAIN deck \ (wilds \cup skips)) = 96

C24_Witness ==
  /\ last.op = "createDeck"
  /\ Len(last.result) > 0
  /\ last.result[Len(last.result)].isSkip
  /\ last.result[1].value = 1 /\ ~last.result[1].isWild

\* C25: the cards of one createDeck call have pairwise distinct ids, whatever
\* generateCardId returns.
C25_DistinctIds ==
  last.op = "createDeck"
    => \A a, b \in DOMAIN last.result : a # b => last.result[a].id # last.result[b].id

\* The number of times x occurs in s.
Occurrences(s, x) == Cardinality({i \in DOMAIN s : s[i] = x})

\* C26: shuffle returns a sequence of the length of its input holding the same
\* elements the same number of times, and leaves its input as it was,
\* whatever the random indices.
C26_ShuffleIsPermutation ==
  last.op = "shuffle"
    => /\ Len(last.result) = Len(last.input)
       /\ \A x \in Range(last.input) \cup Range(last.result) :
            Occurrences(last.result, x) = Occurrences(last.input, x)
       /\ last.array = last.input

\* Three cards come back in another order.
C26_Witness ==
  /\ last.op = "shuffle"
  /\ Len(last.input) = MaxArray
  /\ \A i \in DOMAIN last.input : last.result[i] # last.input[i]

\* C27: getCardPoints is 5 for the ranks 1 to 9, 10 for the ranks 10 to 12, 15
\* for a skip and 25 for a wild, and calculateHandScore is the sum of the
\* points of the cards of the hand, 0 for the empty hand.
C27_CardPoints ==
  /\ last.op = "getCardPoints"
       => last.result =
            (IF last.card.isWild THEN 25
             ELSE IF last.card.isSkip THEN 15
             ELSE IF last.card.value \in 1..9 THEN 5
             ELSE IF last.card.value \in 10..12 THEN 10
             ELSE -1)
  /\ last.op = "calculateHandScore"
       => /\ last.hand = <<>> => last.result = 0
          /\ last.result =
               5 * Cardinality({i \in DOMAIN last.hand : last.hand[i].value \in 1..9})
               + 10 * Cardinality({i \in DOMAIN last.hand : last.hand[i].value \in 10..12})
               + 15 * Cardinality({i \in DOMAIN last.hand : last.hand[i].isSkip})
               + 25 * Cardinality({i \in DOMAIN last.hand : last.hand[i].isWild})

\* A hand of a low card, a high card and a wild.
C27_Witness ==
  /\ last.op = "calculateHandScore" /\ last.result = 40
  /\ \E i \in DOMAIN last.hand : last.hand[i].value = 9
  /\ \E i \in DOMAIN last.hand : last.hand[i].value = 10

\* C28: while the status is playing the active seat has a call that returns
\* true: a draw when the turn phase is draw, a discard when it is play.
C28_ActiveSeatCanAct ==
  game.status = "playing"
    => LET me == game.current_player_index
       IN /\ game.turn_phase = "draw"
               => \E pile \in Piles, k \in Rand : drawCard(game, players, me, pile, k).ok
          /\ game.turn_phase = "play"
               => \E card \in Range(createDeck), k \in Rand :
                    discardCard(game, players, me, card, k).ok

\* C29: calls of drawCard and discardCard that return true alternate, starting
\* with a draw: a draw returns true only while the turn phase of the games row
\* is draw and not right after another draw, a discard only while it is play
\* and not right after another discard, also for calls made from one snapshot.
C29_DrawDiscardAlternate ==
  [][/\ Called("draw") => (game.turn_phase = "draw" /\ last.op # "draw")
     /\ Called("discard") => (game.turn_phase = "play" /\ last.op # "discard")]_vars

\* The seats whose round-end update is still to be sent.
Unscored == {last.pending[i].id : i \in {j \in DOMAIN last.pending : "score" \in DOMAIN last.pending[j].set}}

\* C30: the changes of one call take effect in one step.  Whenever the tables
\* can be loaded, a card a draw has taken from a pile is in the drawer's hand,
\* a card hit with is in exactly one of the caller's hand and the target
\* group, and the seats are scored at a round end all or none.
C30_CallsAreAtomic ==
  last.call.ok
    => LET me == last.call.seat
           pilesBefore == IdsOf(last.before.game.draw_pile \o last.before.game.discard_pile)
           pilesNow == IdsOf(game.draw_pile \o game.discard_pile)
       IN /\ last.call.op = "draw"
               => (pilesBefore \ pilesNow) \subseteq IdsOf(players[me].hand)
          /\ last.call.op = "hit"
               => LET id == last.call.card[1].id
                      group == players[last.call.target].laid_down_cards[last.call.groupIndex + 1]
                  IN (id \in IdsOf(players[me].hand)) # (id \in IdsOf(group))
          /\ last.call.op = "discard" => Unscored \in {{}, Seats}

\* The seat whose turn it is has drawn and not yet discarded.
BetweenDrawAndDiscard(p) == game.current_player_index = p /\ game.turn_phase = "play"

HandSizesKept ==
  game.status = "playing"
    => \A p \in Seats :
         ~players[p].has_laid_down
           => Len(players[p].hand) = (IF BetweenDrawAndDiscard(p) THEN HandSize + 1 ELSE HandSize)

C32_DiscardPileNotEmptyAtDraw ==
  (game.status = "playing" /\ game.turn_phase = "draw")
    => /\ Len(game.discard_pile) >= 1
       /\ \A k \in Rand :
            drawCard(game, players, game.current_player_index, "discard", k).ok

\* The card just discarded is alone on the pile: the draw before took the
\* pile's only card.
C32_Witness ==
  /\ last.op = "discard" /\ last.ok
  /\ game.status = "playing" /\ game.turn_phase = "draw"
  /\ game.current_player_index # 0
  /\ game.discard_pile = last.card

\* C33: every laid-down group of every seat has no skip and is a valid group
\* for the type determineGroupType gives it.
C33_LaidDownGroupsValid ==
  \A p \in Seats : \A i \in DOMAIN players[p].laid_down_cards :
    LET group == players[p].laid_down_cards[i]
    IN /\ NoSkip(group)
       /\ determineGroupType(group) # None
       /\ isValidGroup(group, determineGroupType(group))

\* C34: for a group isValidGroup accepts under some type determineGroupType
\* returns a type, not null, under which isValidGroup accepts the group too;
\* a group accepted as a set is given the type set.
C34_InferredTypeAccepts ==
  last.op = "determineGroupType"
    => /\ (\E type \in RequirementTypes : isValidGroup(last.group, type))
            => /\ last.result \in RequirementTypes
               /\ isValidGroup(last.group, last.result)
       /\ isValidGroup(last.group, "set") => last.result = "set"

\* Three cards of one color in sequence: a color group that is given the type run.
C34_Witness ==
  /\ last.op = "determineGroupType"
  /\ Len(last.group) = 3
  /\ isValidGroup(last.group, "color")
  /\ \A i \in DOMAIN last.group : ~last.group[i].isWild
  /\ last.result = "run"

\* Every seat of a game that is being played has requirements for its phase.
PhaseIndexInRange ==
  game.status = "playing"
    => \A p \in Seats : players[p].current_phase_index + 1 \in DOMAIN phases

RECURSIVE LeadingSkips(_)
\* The skips setupGame passes over before it finds the first discard.
LeadingSkips(pile) ==
  IF pile = <<>> \/ ~pile[1].isSkip THEN {}
  ELSE {pile[1]} \cup LeadingSkips(Tail(pile))

RECURSIVE DrawnAt(_, _)
\* The number of the draw from the pile that takes the card at position i.
DrawnAt(pile, i) ==
  IF i = PopIndex(pile) THEN 1
  ELSE 1 + DrawnAt(SubSeq(pile, 1, Len(pile) - 1), i)

\* C36: a skip setupGame passes over while it looks for the first discard is
\* at the bottom of the draw pile: draws from the pile take it only after
\* every other card of the pile.
C36_PassedSkipDrawnLast ==
  last.op = "setupGame"
    => LET pile == last.result.drawPile
           passed == LeadingSkips(dealHands(last.deck, last.playerCount, HandSize)[2])
       IN \A i, j \in DOMAIN pile :
            (pile[i] \in passed /\ pile[j] \notin passed)
              => DrawnAt(pile, i) > DrawnAt(pile, j)

NoGroupsWithoutFlag ==
  \A p \in Seats : ~players[p].has_laid_down => players[p].laid_down_cards = <<>>

UnmetRequirement(cards, want, n) ==
  \E f \in [DOMAIN cards -> 0..(n - 1)] :
    /\ \A m \in 1..(n - 1) :
         /\ Len(Assigned(cards, f, m)) = want[m].size
         /\ isValidGroup(Assigned(cards, f, m), want[m].type)
    /\ findValidGroups(Assigned(cards, f, 0), want[n].type, want[n].size) = <<>>

\* C39: when validatePhase fails after the count of the cards, its reason
\* names an unmet requirement: the type and size of a requirement for which
\* the cards left by groups for the requirements before it hold no valid group.
C39_ReasonNamesUnmetRequirement ==
  (/\ last.op = "validatePhase"
   /\ ~last.result.valid
   /\ Len(last.cards) = TotalNeeded(last.requirements))
    => LET want == ExpandReqs(last.requirements)
       IN \E n \in DOMAIN want :
            /\ last.result.error = CannotSatisfy(want[n])
            /\ UnmetRequirement(last.cards, want, n)

\* -------------------------------------------------------------------------
\* The lobby: joinGame and leaveGame on a game createGame has made.  Here
\* players is the set of game_players rows of the game, a row's id being its
\* user_id; store[u] is where the joinGame call of user u stands, the seat it
\* computed, and whether the store of u holds a currentPlayer.

\* Users that may join; user 0 is the host.
NumUsers == 4
\* settings.maxPlayers of the game.
LobbyMaxPlayers == 3
\* Calls of joinGame and leaveGame followed.
MaxLobbySteps == 6
\* game.settings?.maxPlayers || 6
DefaultMaxPlayers == 6

Users == 0..(NumUsers - 1)

SeatRow(u, seat) == [user_id |-> u, seat_index |-> seat]

\* maxPlayers of joinGame for the settings of game g.
MaxPlayersOf(g) == IF g.maxPlayers = 0 THEN DefaultMaxPlayers ELSE g.maxPlayers

MaxOf(S) == CHOOSE m \in S : \A x \in S : x <= m

\* nextSeat of joinGame from the rows it selected.
NextSeat(rows) ==
  IF Cardinality(rows) > 0 THEN MaxOf({r.seat_index : r \in rows}) + 1 ELSE 0

\* unique(game_id, user_id) and unique(game_id, seat_index) let the row in.
InsertAllowed(rows, row) ==
  \A r \in rows : r.user_id # row.user_id /\ r.seat_index # row.seat_index

Idle(hasPlayer) == [at |-> "idle", nextSeat |-> 0, currentPlayer |-> hasPlayer]

\* createGame: the game in lobby with the host at seat 0.
InitLobby ==
  /\ game = [status |-> "lobby", maxPlayers |-> LobbyMaxPlayers]
  /\ players = {SeatRow(0, 0)}
  /\ store = [u \in Users |-> Idle(u = 0)]
  /\ last = [op |-> "createGame", user |-> 0, ok |-> TRUE]
  /\ steps = 0

\* joinGame up to its insert: the game is found in lobby, then the user's own
\* row is looked for, then the seat indexes are selected and counted.
JoinGameSelects ==
  \E u \in Users :
    /\ store[u].at = "idle"
    /\ steps < MaxLobbySteps
    /\ game.status = "lobby"
    /\ steps' = steps + 1
    /\ IF \E r \in players : r.user_id = u
       THEN /\ store' = [store EXCEPT ![u] = Idle(TRUE)]
            /\ last' = [op |-> "joinGame", user |-> u, ok |-> TRUE]
       ELSE IF Cardinality(players) >= MaxPlayersOf(game)
       THEN /\ store' = store
            /\ last' = [op |-> "joinGame", user |-> u, ok |-> FALSE]
       ELSE /\ store' = [store EXCEPT ![u] =
                           [at |-> "insert", nextSeat |-> NextSeat(players),
                            currentPlayer |-> store[u].currentPlayer]]
            /\ last' = [op |-> "select", user |-> u, ok |-> TRUE]
    /\ UNCHANGED <<game, players>>

\* The insert of joinGame and what follows it: loadGame, or the joinError thrown.
JoinGameInserts ==
  \E u \in Users :
    /\ store[u].at = "insert"
    /\ LET row == SeatRow(u, store[u].nextSeat)
       IN IF InsertAllowed(players, row)
          THEN /\ players' = players \cup {row}
               /\ store' = [store EXCEPT ![u] = Idle(TRUE)]
               /\ last' = [op |-> "joinGame", user |-> u, ok |-> TRUE]
          ELSE /\ players' = players
               /\ store' = [store EXCEPT ![u] = Idle(store[u].currentPlayer)]
               /\ last' = [op |-> "joinGame", user |-> u, ok |-> FALSE]
    /\ UNCHANGED <<game, steps>>

\* leaveGame of a user whose store holds the game and a currentPlayer.
LeaveGame ==
  \E u \in Users :
    /\ store[u].at = "idle"
    /\ store[u].currentPlayer
    /\ steps < MaxLobbySteps
    /\ steps' = steps + 1
    /\ players' = {r \in players : r.user_id # u}
    /\ store' = [store EXCEPT ![u] = Idle(FALSE)]
    /\ last' = [op |-> "leaveGame", user |-> u, ok |-> TRUE]
    /\ UNCHANGED game

NextLobby == JoinGameSelects \/ JoinGameInserts \/ LeaveGame

SpecLobby == InitLobby /\ [][NextLobby]_vars

\* C40: after any joins and leaves in lobby, joins that interleave included,
\* the seat indexes of the players of the game are pairwise distinct and are
\* exactly 0 to n-1 for n players.
C40_SeatsDistinctAndContiguous ==
  game.status = "lobby"
    => /\ \A r1, r2 \in players : r1.seat_index = r2.seat_index => r1 = r2
       /\ {r.seat_index : r \in players} = 0..(Cardinality(players) - 1)

====
